---- MODULE Spec2Model ----
(***************************************************************************)
(* generator-dock (src/app.py): a Flask service over four SQLite tables    *)
(* (categories, templates, template_fields, filled_documents).  Every      *)
(* request handler is one action; the tables are the state.  The detail    *)
(* handler is also modelled statement by statement, for several clients.   *)
(*                                                                         *)
(* Text that the source writes in Cyrillic (category names, template       *)
(* names and descriptions, document types) is transliterated to ASCII, one *)
(* distinct string per distinct source string; CodePoints gives the        *)
(* characters of the source text where a handler looks inside it (LIKE).   *)
(* Columns that no handler compares or computes with (category             *)
(* descriptions, labels, placeholders, min/max, options) are left out of   *)
(* the rows.                                                               *)
(***************************************************************************)
EXTENDS Integers, Sequences, FiniteSets, TLC

\* Number of state-changing requests (seed, template detail, document
\* generation) served in one behaviour.
MaxRequests == 3

VARIABLES
    categories,        \* table categories: rows [id, name]
    templates,         \* table templates: rows [id, category_id, name, description, doc_type, word_count, popularity]
    template_fields,   \* table template_fields: rows [id, template_id, field_key, field_type, is_required, order_index]
    filled_documents,  \* table filled_documents: rows [id, template_id, document_data, status, created_at]
    sqlite_sequence,   \* AUTOINCREMENT: the largest id ever given out, per table
    clock,             \* CURRENT_TIMESTAMP, in seconds
    served,            \* state-changing requests served so far
    detail_calls,      \* history: per template row, the detail requests answered 200
    request,           \* the last request received
    response,          \* the response to it
    conn,              \* the connection of the last handler when it returned:
                       \* "none" (none opened), "closed" or "open"
    inflight           \* per client, its detail request in progress

vars == << categories, templates, template_fields, filled_documents,
           sqlite_sequence, clock, served, detail_calls, request, response,
           conn, inflight >>

tables == << categories, templates, template_fields, filled_documents >>

(***************************************************************************)
(* Schema (init_database)                                                  *)
(***************************************************************************)

\* The CHECK list with its last type left out
DocTypesButLast ==
    { "Dogovor", "Zayavlenie", "Iskovoe zayavlenie", "Soglashenie", "Rastorzhenie",
      "Akt", "Doverennost", "Prikaz" }

\* CHECK(doc_type IN (...)) of table templates
DocTypes ==
    { "Dogovor", "Zayavlenie", "Iskovoe zayavlenie", "Soglashenie", "Rastorzhenie",
      "Akt", "Doverennost", "Prikaz", "Prochee" }

\* CHECK(field_type IN (...)) of table template_fields
FieldTypes ==
    { "text", "number", "date", "email", "phone", "select", "textarea", "boolean" }

\* get_db_connection never issues PRAGMA foreign_keys = ON, so SQLite keeps
\* its default: the FOREIGN KEY clauses of the schema are not enforced.
ForeignKeysEnforced == FALSE

\* A column holding SQL NULL
NULL == "NULL"

(***************************************************************************)
(* The fixed catalog of seed_database                                      *)
(***************************************************************************)

\* categories = [...]: the names, in insertion order
CatalogCategories ==
    << "Dogovory",
       "Zayavleniya",
       "Iskovye zayavleniya",
       "Soglasheniya i rastorzheniya",
       "Akty",
       "Doverennosti",
       "Prikazy",
       "Prochee" >>

\* templates_data = [...]: per template its name, category, type, word
\* count, description and ordered field definitions (key, type, required)
TemplatesData == <<
    [name |-> "Obrazets dogovora arendy kvartiry s mebelyu i bytovoy tekhnikoy",
     category |-> "Dogovory", type |-> "Dogovor", word_count |-> 149900,
     description |-> "Polnyy dogovor arendy kvartiry s mebelyu i tekhnikoy dlya dlitelnoy arendy",
     fields |-> <<
          [key |-> "landlord_name", type |-> "text", required |-> TRUE],
          [key |-> "landlord_passport", type |-> "text", required |-> TRUE],
          [key |-> "tenant_name", type |-> "text", required |-> TRUE],
          [key |-> "tenant_passport", type |-> "text", required |-> TRUE],
          [key |-> "address", type |-> "text", required |-> TRUE],
          [key |-> "apartment_area", type |-> "number", required |-> TRUE],
          [key |-> "rooms_count", type |-> "number", required |-> TRUE],
          [key |-> "rent_amount", type |-> "number", required |-> TRUE],
          [key |-> "start_date", type |-> "date", required |-> TRUE],
          [key |-> "end_date", type |-> "date", required |-> TRUE],
          [key |-> "deposit", type |-> "number", required |-> FALSE],
          [key |-> "utilities_included", type |-> "boolean", required |-> FALSE] >>],
    [name |-> "Dogovor kupli-prodazhi transportnogo sredstva",
     category |-> "Dogovory", type |-> "Dogovor", word_count |-> 20017,
     description |-> "Dogovor kupli-prodazhi avtomobilya mezhdu fizicheskimi litsami",
     fields |-> <<
          [key |-> "seller_name", type |-> "text", required |-> TRUE],
          [key |-> "seller_passport", type |-> "text", required |-> TRUE],
          [key |-> "buyer_name", type |-> "text", required |-> TRUE],
          [key |-> "buyer_passport", type |-> "text", required |-> TRUE],
          [key |-> "car_brand", type |-> "text", required |-> TRUE],
          [key |-> "car_model", type |-> "text", required |-> TRUE],
          [key |-> "car_year", type |-> "number", required |-> TRUE],
          [key |-> "vin", type |-> "text", required |-> TRUE],
          [key |-> "state_number", type |-> "text", required |-> TRUE],
          [key |-> "price", type |-> "number", required |-> TRUE],
          [key |-> "sale_date", type |-> "date", required |-> TRUE],
          [key |-> "payment_method", type |-> "select", required |-> TRUE] >>],
    [name |-> "Obrazets trudovogo dogovora",
     category |-> "Dogovory", type |-> "Dogovor", word_count |-> 79545,
     description |-> "Standartnyy trudovoy dogovor mezhdu rabotodatelem i rabotnikom",
     fields |-> <<
          [key |-> "employer_name", type |-> "text", required |-> TRUE],
          [key |-> "employer_details", type |-> "textarea", required |-> TRUE],
          [key |-> "employee_name", type |-> "text", required |-> TRUE],
          [key |-> "employee_passport", type |-> "text", required |-> TRUE],
          [key |-> "position", type |-> "text", required |-> TRUE],
          [key |-> "department", type |-> "text", required |-> TRUE],
          [key |-> "salary", type |-> "number", required |-> TRUE],
          [key |-> "start_date", type |-> "date", required |-> TRUE],
          [key |-> "contract_type", type |-> "select", required |-> TRUE],
          [key |-> "probation_period", type |-> "number", required |-> FALSE],
          [key |-> "work_schedule", type |-> "select", required |-> TRUE] >>],
    [name |-> "Obrazets zayavleniya na oplachivaemyy otpusk",
     category |-> "Zayavleniya", type |-> "Zayavlenie", word_count |-> 15284,
     description |-> "Zayavlenie na ezhegodnyy oplachivaemyy otpusk",
     fields |-> <<
          [key |-> "to_director", type |-> "text", required |-> TRUE],
          [key |-> "employee_name", type |-> "text", required |-> TRUE],
          [key |-> "position", type |-> "text", required |-> TRUE],
          [key |-> "department", type |-> "text", required |-> TRUE],
          [key |-> "vacation_start", type |-> "date", required |-> TRUE],
          [key |-> "vacation_end", type |-> "date", required |-> TRUE],
          [key |-> "vacation_days", type |-> "number", required |-> TRUE],
          [key |-> "vacation_type", type |-> "select", required |-> TRUE],
          [key |-> "application_date", type |-> "date", required |-> TRUE],
          [key |-> "phone", type |-> "phone", required |-> FALSE] >>],
    [name |-> "Obrazets dogovora podryada, zaklyuchaemogo mezhdu yuridicheskim i fizicheskim litsom",
     category |-> "Dogovory", type |-> "Dogovor", word_count |-> 217729,
     description |-> "Dogovor podryada na vypolnenie rabot mezhdu kompaniey i fizicheskim litsom",
     fields |-> <<
          [key |-> "customer_name", type |-> "text", required |-> TRUE],
          [key |-> "customer_details", type |-> "textarea", required |-> TRUE],
          [key |-> "contractor_name", type |-> "text", required |-> TRUE],
          [key |-> "contractor_passport", type |-> "text", required |-> TRUE],
          [key |-> "work_description", type |-> "textarea", required |-> TRUE],
          [key |-> "work_address", type |-> "text", required |-> TRUE],
          [key |-> "start_date", type |-> "date", required |-> TRUE],
          [key |-> "end_date", type |-> "date", required |-> TRUE],
          [key |-> "contract_price", type |-> "number", required |-> TRUE],
          [key |-> "advance_payment", type |-> "number", required |-> FALSE],
          [key |-> "payment_schedule", type |-> "textarea", required |-> FALSE] >>],
    [name |-> "Obrazets iskovogo zayavleniya o vzyskanii alimentov na rebenka",
     category |-> "Iskovye zayavleniya", type |-> "Iskovoe zayavlenie", word_count |-> 52892,
     description |-> "Iskovoe zayavlenie o vzyskanii alimentov na nesovershennoletnego rebenka",
     fields |-> <<
          [key |-> "court_name", type |-> "text", required |-> TRUE],
          [key |-> "plaintiff_name", type |-> "text", required |-> TRUE],
          [key |-> "plaintiff_address", type |-> "text", required |-> TRUE],
          [key |-> "plaintiff_phone", type |-> "phone", required |-> TRUE],
          [key |-> "defendant_name", type |-> "text", required |-> TRUE],
          [key |-> "defendant_address", type |-> "text", required |-> TRUE],
          [key |-> "child_name", type |-> "text", required |-> TRUE],
          [key |-> "child_birthdate", type |-> "date", required |-> TRUE],
          [key |-> "child_birth_certificate", type |-> "text", required |-> TRUE],
          [key |-> "marriage_status", type |-> "boolean", required |-> TRUE],
          [key |-> "alimony_amount", type |-> "select", required |-> TRUE],
          [key |-> "request", type |-> "textarea", required |-> TRUE] >>],
    [name |-> "Obrazets doverennosti v nalogovuyu ot yuridicheskogo litsa",
     category |-> "Doverennosti", type |-> "Doverennost", word_count |-> 7894,
     description |-> "Doverennost na predstavlenie interesov kompanii v nalogovoy inspektsii",
     fields |-> <<
          [key |-> "company_name", type |-> "text", required |-> TRUE],
          [key |-> "company_details", type |-> "textarea", required |-> TRUE],
          [key |-> "director_name", type |-> "text", required |-> TRUE],
          [key |-> "trustee_name", type |-> "text", required |-> TRUE],
          [key |-> "trustee_passport", type |-> "text", required |-> TRUE],
          [key |-> "tax_office", type |-> "text", required |-> TRUE],
          [key |-> "purpose", type |-> "textarea", required |-> TRUE],
          [key |-> "validity_period", type |-> "number", required |-> TRUE],
          [key |-> "issue_date", type |-> "date", required |-> TRUE],
          [key |-> "with_right_of_substitution", type |-> "boolean", required |-> FALSE] >>],
    [name |-> "Obrazets rastorzheniya dogovora po soglasheniyu storon",
     category |-> "Soglasheniya i rastorzheniya", type |-> "Rastorzhenie", word_count |-> 35118,
     description |-> "Soglashenie o rastorzhenii dogovora po vzaimnomu soglasiyu storon",
     fields |-> <<
          [key |-> "original_contract_number", type |-> "text", required |-> TRUE],
          [key |-> "original_contract_date", type |-> "date", required |-> TRUE],
          [key |-> "party1_name", type |-> "text", required |-> TRUE],
          [key |-> "party1_details", type |-> "textarea", required |-> TRUE],
          [key |-> "party2_name", type |-> "text", required |-> TRUE],
          [key |-> "party2_details", type |-> "textarea", required |-> TRUE],
          [key |-> "termination_date", type |-> "date", required |-> TRUE],
          [key |-> "termination_reason", type |-> "textarea", required |-> TRUE],
          [key |-> "mutual_settlements", type |-> "boolean", required |-> TRUE],
          [key |-> "no_claims", type |-> "boolean", required |-> TRUE],
          [key |-> "signature_date", type |-> "date", required |-> TRUE] >>],
    [name |-> "Obrazets akta priema-peredachi avtomobilya (prostoy)",
     category |-> "Akty", type |-> "Akt", word_count |-> 22754,
     description |-> "Akt priema-peredachi transportnogo sredstva",
     fields |-> <<
          [key |-> "act_number", type |-> "text", required |-> TRUE],
          [key |-> "act_date", type |-> "date", required |-> TRUE],
          [key |-> "transferor_name", type |-> "text", required |-> TRUE],
          [key |-> "transferee_name", type |-> "text", required |-> TRUE],
          [key |-> "car_brand", type |-> "text", required |-> TRUE],
          [key |-> "car_model", type |-> "text", required |-> TRUE],
          [key |-> "car_year", type |-> "number", required |-> TRUE],
          [key |-> "vin", type |-> "text", required |-> TRUE],
          [key |-> "state_number", type |-> "text", required |-> TRUE],
          [key |-> "mileage", type |-> "number", required |-> TRUE],
          [key |-> "condition_description", type |-> "textarea", required |-> TRUE],
          [key |-> "documents_list", type |-> "textarea", required |-> TRUE],
          [key |-> "transfer_purpose", type |-> "select", required |-> TRUE] >>],
    [name |-> "Obrazets zaveshchaniya imushchestva (s podnaznacheniem naslednika)",
     category |-> "Prochee", type |-> "Prochee", word_count |-> 3734,
     description |-> "Zaveshchanie s ukazaniem osnovnogo i podnaznachennogo naslednika",
     fields |-> <<
          [key |-> "testator_name", type |-> "text", required |-> TRUE],
          [key |-> "testator_passport", type |-> "text", required |-> TRUE],
          [key |-> "testator_address", type |-> "text", required |-> TRUE],
          [key |-> "testator_birthdate", type |-> "date", required |-> TRUE],
          [key |-> "notary_name", type |-> "text", required |-> TRUE],
          [key |-> "notary_office", type |-> "text", required |-> TRUE],
          [key |-> "main_heir_name", type |-> "text", required |-> TRUE],
          [key |-> "main_heir_relation", type |-> "text", required |-> TRUE],
          [key |-> "substitute_heir_name", type |-> "text", required |-> FALSE],
          [key |-> "property_description", type |-> "textarea", required |-> TRUE],
          [key |-> "special_conditions", type |-> "textarea", required |-> FALSE],
          [key |-> "execution_date", type |-> "date", required |-> TRUE] >>] >>

\* The Unicode code points of a template name or description as the source
\* writes it (the model's strings are their transliterations)
CodePoints(text) ==
    CASE text = "Obrazets dogovora arendy kvartiry s mebelyu i bytovoy tekhnikoy" ->
          << 1054, 1073, 1088, 1072, 1079, 1077, 1094, 32, 1076, 1086, 1075, 1086, 1074, 1086, 1088, 1072,
             32, 1072, 1088, 1077, 1085, 1076, 1099, 32, 1082, 1074, 1072, 1088, 1090, 1080, 1088, 1099,
             32, 1089, 32, 1084, 1077, 1073, 1077, 1083, 1100, 1102, 32, 1080, 32, 1073, 1099, 1090,
             1086, 1074, 1086, 1081, 32, 1090, 1077, 1093, 1085, 1080, 1082, 1086, 1081 >>
      [] text = "Dogovor kupli-prodazhi transportnogo sredstva" ->
          << 1044, 1086, 1075, 1086, 1074, 1086, 1088, 32, 1082, 1091, 1087, 1083, 1080, 45, 1087, 1088,
             1086, 1076, 1072, 1078, 1080, 32, 1090, 1088, 1072, 1085, 1089, 1087, 1086, 1088, 1090, 1085,
             1086, 1075, 1086, 32, 1089, 1088, 1077, 1076, 1089, 1090, 1074, 1072 >>
      [] text = "Obrazets trudovogo dogovora" ->
          << 1054, 1073, 1088, 1072, 1079, 1077, 1094, 32, 1090, 1088, 1091, 1076, 1086, 1074, 1086, 1075,
             1086, 32, 1076, 1086, 1075, 1086, 1074, 1086, 1088, 1072 >>
      [] text = "Obrazets zayavleniya na oplachivaemyy otpusk" ->
          << 1054, 1073, 1088, 1072, 1079, 1077, 1094, 32, 1079, 1072, 1103, 1074, 1083, 1077, 1085, 1080,
             1103, 32, 1085, 1072, 32, 1086, 1087, 1083, 1072, 1095, 1080, 1074, 1072, 1077, 1084, 1099,
             1081, 32, 1086, 1090, 1087, 1091, 1089, 1082 >>
      [] text = "Obrazets dogovora podryada, zaklyuchaemogo mezhdu yuridicheskim i fizicheskim litsom" ->
          << 1054, 1073, 1088, 1072, 1079, 1077, 1094, 32, 1076, 1086, 1075, 1086, 1074, 1086, 1088, 1072,
             32, 1087, 1086, 1076, 1088, 1103, 1076, 1072, 44, 32, 1079, 1072, 1082, 1083, 1102, 1095,
             1072, 1077, 1084, 1086, 1075, 1086, 32, 1084, 1077, 1078, 1076, 1091, 32, 1102, 1088, 1080,
             1076, 1080, 1095, 1077, 1089, 1082, 1080, 1084, 32, 1080, 32, 1092, 1080, 1079, 1080, 1095,
             1077, 1089, 1082, 1080, 1084, 32, 1083, 1080, 1094, 1086, 1084 >>
      [] text = "Obrazets iskovogo zayavleniya o vzyskanii alimentov na rebenka" ->
          << 1054, 1073, 1088, 1072, 1079, 1077, 1094, 32, 1080, 1089, 1082, 1086, 1074, 1086, 1075, 1086,
             32, 1079, 1072, 1103, 1074, 1083, 1077, 1085, 1080, 1103, 32, 1086, 32, 1074, 1079, 1099,
             1089, 1082, 1072, 1085, 1080, 1080, 32, 1072, 1083, 1080, 1084, 1077, 1085, 1090, 1086, 1074,
             32, 1085, 1072, 32, 1088, 1077, 1073, 1077, 1085, 1082, 1072 >>
      [] text = "Obrazets doverennosti v nalogovuyu ot yuridicheskogo litsa" ->
          << 1054, 1073, 1088, 1072, 1079, 1077, 1094, 32, 1076, 1086, 1074, 1077, 1088, 1077, 1085, 1085,
             1086, 1089, 1090, 1080, 32, 1074, 32, 1085, 1072, 1083, 1086, 1075, 1086, 1074, 1091, 1102,
             32, 1086, 1090, 32, 1102, 1088, 1080, 1076, 1080, 1095, 1077, 1089, 1082, 1086, 1075, 1086,
             32, 1083, 1080, 1094, 1072 >>
      [] text = "Obrazets rastorzheniya dogovora po soglasheniyu storon" ->
          << 1054, 1073, 1088, 1072, 1079, 1077, 1094, 32, 1088, 1072, 1089, 1090, 1086, 1088, 1078, 1077,
             1085, 1080, 1103, 32, 1076, 1086, 1075, 1086, 1074, 1086, 1088, 1072, 32, 1087, 1086, 32,
             1089, 1086, 1075, 1083, 1072, 1096, 1077, 1085, 1080, 1102, 32, 1089, 1090, 1086, 1088, 1086,
             1085 >>
      [] text = "Obrazets akta priema-peredachi avtomobilya (prostoy)" ->
          << 1054, 1073, 1088, 1072, 1079, 1077, 1094, 32, 1072, 1082, 1090, 1072, 32, 1087, 1088, 1080,
             1077, 1084, 1072, 45, 1087, 1077, 1088, 1077, 1076, 1072, 1095, 1080, 32, 1072, 1074, 1090,
             1086, 1084, 1086, 1073, 1080, 1083, 1103, 32, 40, 1087, 1088, 1086, 1089, 1090, 1086, 1081,
             41 >>
      [] text = "Obrazets zaveshchaniya imushchestva (s podnaznacheniem naslednika)" ->
          << 1054, 1073, 1088, 1072, 1079, 1077, 1094, 32, 1079, 1072, 1074, 1077, 1097, 1072, 1085, 1080,
             1103, 32, 1080, 1084, 1091, 1097, 1077, 1089, 1090, 1074, 1072, 32, 40, 1089, 32, 1087,
             1086, 1076, 1085, 1072, 1079, 1085, 1072, 1095, 1077, 1085, 1080, 1077, 1084, 32, 1085, 1072,
             1089, 1083, 1077, 1076, 1085, 1080, 1082, 1072, 41 >>
      [] text = "Polnyy dogovor arendy kvartiry s mebelyu i tekhnikoy dlya dlitelnoy arendy" ->
          << 1055, 1086, 1083, 1085, 1099, 1081, 32, 1076, 1086, 1075, 1086, 1074, 1086, 1088, 32, 1072,
             1088, 1077, 1085, 1076, 1099, 32, 1082, 1074, 1072, 1088, 1090, 1080, 1088, 1099, 32, 1089,
             32, 1084, 1077, 1073, 1077, 1083, 1100, 1102, 32, 1080, 32, 1090, 1077, 1093, 1085, 1080,
             1082, 1086, 1081, 32, 1076, 1083, 1103, 32, 1076, 1083, 1080, 1090, 1077, 1083, 1100, 1085,
             1086, 1081, 32, 1072, 1088, 1077, 1085, 1076, 1099 >>
      [] text = "Dogovor kupli-prodazhi avtomobilya mezhdu fizicheskimi litsami" ->
          << 1044, 1086, 1075, 1086, 1074, 1086, 1088, 32, 1082, 1091, 1087, 1083, 1080, 45, 1087, 1088,
             1086, 1076, 1072, 1078, 1080, 32, 1072, 1074, 1090, 1086, 1084, 1086, 1073, 1080, 1083, 1103,
             32, 1084, 1077, 1078, 1076, 1091, 32, 1092, 1080, 1079, 1080, 1095, 1077, 1089, 1082, 1080,
             1084, 1080, 32, 1083, 1080, 1094, 1072, 1084, 1080 >>
      [] text = "Standartnyy trudovoy dogovor mezhdu rabotodatelem i rabotnikom" ->
          << 1057, 1090, 1072, 1085, 1076, 1072, 1088, 1090, 1085, 1099, 1081, 32, 1090, 1088, 1091, 1076,
             1086, 1074, 1086, 1081, 32, 1076, 1086, 1075, 1086, 1074, 1086, 1088, 32, 1084, 1077, 1078,
             1076, 1091, 32, 1088, 1072, 1073, 1086, 1090, 1086, 1076, 1072, 1090, 1077, 1083, 1077, 1084,
             32, 1080, 32, 1088, 1072, 1073, 1086, 1090, 1085, 1080, 1082, 1086, 1084 >>
      [] text = "Zayavlenie na ezhegodnyy oplachivaemyy otpusk" ->
          << 1047, 1072, 1103, 1074, 1083, 1077, 1085, 1080, 1077, 32, 1085, 1072, 32, 1077, 1078, 1077,
             1075, 1086, 1076, 1085, 1099, 1081, 32, 1086, 1087, 1083, 1072, 1095, 1080, 1074, 1072, 1077,
             1084, 1099, 1081, 32, 1086, 1090, 1087, 1091, 1089, 1082 >>
      [] text = "Dogovor podryada na vypolnenie rabot mezhdu kompaniey i fizicheskim litsom" ->
          << 1044, 1086, 1075, 1086, 1074, 1086, 1088, 32, 1087, 1086, 1076, 1088, 1103, 1076, 1072, 32,
             1085, 1072, 32, 1074, 1099, 1087, 1086, 1083, 1085, 1077, 1085, 1080, 1077, 32, 1088, 1072,
             1073, 1086, 1090, 32, 1084, 1077, 1078, 1076, 1091, 32, 1082, 1086, 1084, 1087, 1072, 1085,
             1080, 1077, 1081, 32, 1080, 32, 1092, 1080, 1079, 1080, 1095, 1077, 1089, 1082, 1080, 1084,
             32, 1083, 1080, 1094, 1086, 1084 >>
      [] text = "Iskovoe zayavlenie o vzyskanii alimentov na nesovershennoletnego rebenka" ->
          << 1048, 1089, 1082, 1086, 1074, 1086, 1077, 32, 1079, 1072, 1103, 1074, 1083, 1077, 1085, 1080,
             1077, 32, 1086, 32, 1074, 1079, 1099, 1089, 1082, 1072, 1085, 1080, 1080, 32, 1072, 1083,
             1080, 1084, 1077, 1085, 1090, 1086, 1074, 32, 1085, 1072, 32, 1085, 1077, 1089, 1086, 1074,
             1077, 1088, 1096, 1077, 1085, 1085, 1086, 1083, 1077, 1090, 1085, 1077, 1075, 1086, 32, 1088,
             1077, 1073, 1077, 1085, 1082, 1072 >>
      [] text = "Doverennost na predstavlenie interesov kompanii v nalogovoy inspektsii" ->
          << 1044, 1086, 1074, 1077, 1088, 1077, 1085, 1085, 1086, 1089, 1090, 1100, 32, 1085, 1072, 32,
             1087, 1088, 1077, 1076, 1089, 1090, 1072, 1074, 1083, 1077, 1085, 1080, 1077, 32, 1080, 1085,
             1090, 1077, 1088, 1077, 1089, 1086, 1074, 32, 1082, 1086, 1084, 1087, 1072, 1085, 1080, 1080,
             32, 1074, 32, 1085, 1072, 1083, 1086, 1075, 1086, 1074, 1086, 1081, 32, 1080, 1085, 1089,
             1087, 1077, 1082, 1094, 1080, 1080 >>
      [] text = "Soglashenie o rastorzhenii dogovora po vzaimnomu soglasiyu storon" ->
          << 1057, 1086, 1075, 1083, 1072, 1096, 1077, 1085, 1080, 1077, 32, 1086, 32, 1088, 1072, 1089,
             1090, 1086, 1088, 1078, 1077, 1085, 1080, 1080, 32, 1076, 1086, 1075, 1086, 1074, 1086, 1088,
             1072, 32, 1087, 1086, 32, 1074, 1079, 1072, 1080, 1084, 1085, 1086, 1084, 1091, 32, 1089,
             1086, 1075, 1083, 1072, 1089, 1080, 1102, 32, 1089, 1090, 1086, 1088, 1086, 1085 >>
      [] text = "Akt priema-peredachi transportnogo sredstva" ->
          << 1040, 1082, 1090, 32, 1087, 1088, 1080, 1077, 1084, 1072, 45, 1087, 1077, 1088, 1077, 1076,
             1072, 1095, 1080, 32, 1090, 1088, 1072, 1085, 1089, 1087, 1086, 1088, 1090, 1085, 1086, 1075,
             1086, 32, 1089, 1088, 1077, 1076, 1089, 1090, 1074, 1072 >>
      [] text = "Zaveshchanie s ukazaniem osnovnogo i podnaznachennogo naslednika" ->
          << 1047, 1072, 1074, 1077, 1097, 1072, 1085, 1080, 1077, 32, 1089, 32, 1091, 1082, 1072, 1079,
             1072, 1085, 1080, 1077, 1084, 32, 1086, 1089, 1085, 1086, 1074, 1085, 1086, 1075, 1086, 32,
             1080, 32, 1087, 1086, 1076, 1085, 1072, 1079, 1085, 1072, 1095, 1077, 1085, 1085, 1086, 1075,
             1086, 32, 1085, 1072, 1089, 1083, 1077, 1076, 1085, 1080, 1082, 1072 >>

\* ORDER BY name: SQLite compares TEXT bytewise (BINARY collation).  The
\* category names and the template names in that order, computed from the
\* UTF-8 bytes of the source strings.
NameOrder ==
    << "Akty",
       "Doverennosti",
       "Dogovory",
       "Zayavleniya",
       "Iskovye zayavleniya",
       "Prikazy",
       "Prochee",
       "Soglasheniya i rastorzheniya",
       "Dogovor kupli-prodazhi transportnogo sredstva",
       "Obrazets akta priema-peredachi avtomobilya (prostoy)",
       "Obrazets doverennosti v nalogovuyu ot yuridicheskogo litsa",
       "Obrazets dogovora arendy kvartiry s mebelyu i bytovoy tekhnikoy",
       "Obrazets dogovora podryada, zaklyuchaemogo mezhdu yuridicheskim i fizicheskim litsom",
       "Obrazets zaveshchaniya imushchestva (s podnaznacheniem naslednika)",
       "Obrazets zayavleniya na oplachivaemyy otpusk",
       "Obrazets iskovogo zayavleniya o vzyskanii alimentov na rebenka",
       "Obrazets rastorzheniya dogovora po soglasheniyu storon",
       "Obrazets trudovogo dogovora" >>

\* a < b under ORDER BY name
NameLess(a, b) ==
    LET pos(n) == CHOOSE i \in 1..Len(NameOrder) : NameOrder[i] = n
    IN  pos(a) < pos(b)

\* The clients that send template detail requests at the same time
Clients == { "c1", "c2" }

\* A client with no request in progress
Idle == [pc |-> "idle", template_id |-> 0, template |-> NULL]

(***************************************************************************)
(* Initial state: the tables as init_database creates them, all empty      *)
(***************************************************************************)

Init ==
    /\ categories = {}
    /\ templates = {}
    /\ template_fields = {}
    /\ filled_documents = {}
    /\ sqlite_sequence = [categories |-> 0, templates |-> 0,
                          template_fields |-> 0, filled_documents |-> 0]
    /\ clock = 0
    /\ served = 0
    /\ detail_calls = << >>
    /\ request = [op |-> "none"]
    /\ response = [status |-> 0]
    /\ conn = "none"
    /\ inflight = [c \in Clients |-> Idle]

(***************************************************************************)
(* POST /api/admin/seed (seed_database)                                    *)
(***************************************************************************)

\* A storage failure during one seed: none; the INSERT of a category raises
\* (outside the per-template try, so the handler answers 500); the INSERT of
\* catalog template t raises; the INSERT of field f of catalog template t
\* raises.
NoFault == [stage |-> "none", t |-> 0, f |-> 0]

Faults ==
    { NoFault,
      [stage |-> "categories", t |-> 0, f |-> 0],
      [stage |-> "template", t |-> 2, f |-> 0],
      [stage |-> "field", t |-> 1, f |-> 2] }

\* category_ids[name] = cursor.lastrowid of the category's INSERT
CategoryIds(seq) ==
    [ n \in { CatalogCategories[k] : k \in 1..Len(CatalogCategories) } |->
        seq + CHOOSE k \in 1..Len(CatalogCategories) :
                /\ CatalogCategories[k] = n
                /\ \A j \in (k+1)..Len(CatalogCategories) : CatalogCategories[j] # n ]

\* The rows of the category INSERT loop
SeedCategories(seq) ==
    { [id |-> seq + k, name |-> CatalogCategories[k]] : k \in 1..Len(CatalogCategories) }

\* An INSERT INTO templates that never raises
TemplateInsertNeverFails(i, category_ids, fault) == FALSE

\* INSERT INTO templates raises: the injected failure, a category name that
\* is no key of category_ids (KeyError), or the CHECK on doc_type
TemplateInsertFails(i, category_ids, fault) ==
    \/ fault.stage = "template" /\ fault.t = i
    \/ TemplatesData[i].category \notin DOMAIN category_ids
    \/ TemplatesData[i].type \notin DocTypes

\* INSERT INTO template_fields raises: the injected failure or the CHECK on
\* field_type
FieldInsertFails(i, j, fault) ==
    \/ fault.stage = "field" /\ fault.t = i /\ fault.f = j
    \/ TemplatesData[i].fields[j].type \notin FieldTypes

\* for i, field in enumerate(template['fields']): INSERT ...; the first
\* INSERT that raises leaves the loop (the except of the template loop
\* catches it), the rows inserted before it stay.
\* st = [rows: template_fields, seq: last field id]
RECURSIVE InsertFields(_, _, _, _, _)
InsertFields(st, template_id, i, j, fault) ==
    IF j > Len(TemplatesData[i].fields) \/ FieldInsertFails(i, j, fault)
    THEN st
    ELSE InsertFields(
            [rows |-> st.rows \cup
                        { [id |-> st.seq + 1,
                           template_id |-> template_id,
                           field_key |-> TemplatesData[i].fields[j].key,
                           field_type |-> TemplatesData[i].fields[j].type,
                           is_required |-> TemplatesData[i].fields[j].required,
                           order_index |-> j - 1] },
             seq |-> st.seq + 1],
            template_id, i, j + 1, fault)

\* for template in templates_data: try: INSERT template; added_count += 1;
\* INSERT its fields; except: continue
\* st = [templates, template_fields, seq_t, seq_f, added_count]
RECURSIVE InsertTemplates(_, _, _, _)
InsertTemplates(st, i, category_ids, fault) ==
    IF i > Len(TemplatesData) THEN st
    ELSE IF TemplateInsertFails(i, category_ids, fault)
    THEN InsertTemplates(st, i + 1, category_ids, fault)
    ELSE LET template_id == st.seq_t + 1
             row == [id |-> template_id,
                     category_id |-> category_ids[TemplatesData[i].category],
                     name |-> TemplatesData[i].name,
                     doc_type |-> TemplatesData[i].type,
                     description |-> TemplatesData[i].description,
                     word_count |-> TemplatesData[i].word_count,
                     popularity |-> 0]
             fs == InsertFields([rows |-> st.template_fields, seq |-> st.seq_f],
                                template_id, i, 1, fault)
         IN  InsertTemplates(
                [templates |-> st.templates \cup {row},
                 template_fields |-> fs.rows,
                 seq_t |-> template_id,
                 seq_f |-> fs.seq,
                 added_count |-> st.added_count + 1],
                i + 1, category_ids, fault)

\* templates_list: [t['name'] for t in templates_data[:added_count]]
SeededNames(added_count) ==
    [ k \in 1..added_count |-> TemplatesData[k].name ]

\* The three DELETEs raise when foreign keys are enforced and a row still
\* references a template; the category INSERT raises on the injected
\* failure.  Either exception reaches the outer except: 500, and the
\* connection is dropped without commit, which rolls the transaction back.
SeedRaises(fault) ==
    \/ ForeignKeysEnforced /\ filled_documents # {}
    \/ fault.stage = "categories"

\* The seed without its DELETE FROM template_fields
DeleteAllButFields ==
    [categories |-> {}, templates |-> {}, template_fields |-> template_fields]

\* DELETE FROM template_fields; DELETE FROM templates; DELETE FROM
\* categories: what is left of the three tables
DeleteAll ==
    [categories |-> {}, templates |-> {}, template_fields |-> {}]

seed_database(fault) ==
    /\ served < MaxRequests
    /\ request' = [op |-> "seed", fault |-> fault]
    /\ IF SeedRaises(fault)
       THEN /\ response' = [status |-> 500]
            /\ conn' = "open"
            /\ UNCHANGED inflight
            /\ UNCHANGED << tables, sqlite_sequence, clock, served, detail_calls >>
       ELSE \E st \in { InsertTemplates(
                            [templates |-> DeleteAll.templates,
                             template_fields |-> DeleteAll.template_fields,
                             seq_t |-> sqlite_sequence.templates,
                             seq_f |-> sqlite_sequence.template_fields,
                             added_count |-> 0],
                            1, CategoryIds(sqlite_sequence.categories), fault) } :
                /\ categories' = DeleteAll.categories
                                   \cup SeedCategories(sqlite_sequence.categories)
                /\ templates' = st.templates
                /\ template_fields' = st.template_fields
                /\ sqlite_sequence' =
                      [sqlite_sequence EXCEPT
                          !.categories = @ + Len(CatalogCategories),
                          !.templates = st.seq_t,
                          !.template_fields = st.seq_f]
                /\ response' = [status |-> 200,
                                templates_added |-> st.added_count,
                                templates_list |-> SeededNames(st.added_count)]
                /\ served' = served + 1
                /\ detail_calls' = [ id \in { t.id : t \in st.templates } |-> 0 ]
                /\ conn' = "closed"
                /\ UNCHANGED inflight
                /\ UNCHANGED << filled_documents, clock >>

(***************************************************************************)
(* Query helpers                                                           *)
(***************************************************************************)

\* fetchall(): the rows of a result set as a sequence (ORDER BY then sorts
\* it, smallest first)
RECURSIVE FetchAll(_)
FetchAll(rows) ==
    IF rows = {} THEN << >>
    ELSE LET r == CHOOSE x \in rows : TRUE
         IN  << r >> \o FetchAll(rows \ {r})

\* LEFT JOIN categories c ON t.category_id = c.id: c.name, or NULL
CategoryName(category_id) ==
    IF \E c \in categories : c.id = category_id
    THEN (CHOOSE c \in categories : c.id = category_id).name
    ELSE NULL

\* Python truthiness of an optional query argument (a set with at most one
\* element: {} is None): None and 0 are falsy for an int, None and '' for a
\* string
IntArgTruthy(arg) == arg # {} /\ arg # {0}

StrArgTruthy(arg) == arg # {} /\ arg # {""}

ArgValue(arg) == CHOOSE v \in arg : TRUE

(***************************************************************************)
(* GET /api/categories (get_categories)                                    *)
(***************************************************************************)

\* The subquery without its WHERE clause
TemplateCountAll(category_id) == Cardinality(templates)

\* (SELECT COUNT(*) FROM templates WHERE category_id = categories.id)
TemplateCount(category_id) ==
    Cardinality({ t \in templates : t.category_id = category_id })

CategoryByName(a, b) == NameLess(a.name, b.name)

\* SELECT id, name, description, (...) as template_count FROM categories
\* ORDER BY name
CategoriesList ==
    SortSeq(FetchAll({ [id |-> cat.id, name |-> cat.name,
                        template_count |-> TemplateCount(cat.id)]
                       : cat \in categories }),
            CategoryByName)

get_categories ==
    /\ request' = [op |-> "categories"]
    /\ \E categories_list \in { CategoriesList } :
          response' = [status |-> 200, categories |-> categories_list,
                       count |-> Len(categories_list)]
    /\ conn' = "closed"
    /\ UNCHANGED inflight
    /\ UNCHANGED << tables, sqlite_sequence, clock, served, detail_calls >>

(***************************************************************************)
(* GET /api/templates (get_all_templates)                                  *)
(***************************************************************************)

\* The query arguments tried: category_id, doc_type and search, each omitted
\* ({}) or supplied; a search term is the sequence of its code points
QueryArgs ==
    { [category_id |-> {}, doc_type |-> {}, search |-> {}],
      [category_id |-> {0}, doc_type |-> {}, search |-> {}],
      [category_id |-> {1}, doc_type |-> {}, search |-> {}],
      [category_id |-> {}, doc_type |-> {""}, search |-> {}],
      [category_id |-> {}, doc_type |-> {"Zayavlenie"}, search |-> {}],
      [category_id |-> {}, doc_type |-> {"Pismo"}, search |-> {}],
      [category_id |-> {1}, doc_type |-> {"Zayavlenie"}, search |-> {}] }

\* Search terms: "dogovor" and "arendy" in lower-case Cyrillic, "Arendy"
\* capitalised, "mezhdu", and the ASCII characters "_", "%" and "("
SearchTerms ==
    { << >>,
      << 1076, 1086, 1075, 1086, 1074, 1086, 1088 >>,
      << 1072, 1088, 1077, 1085, 1076, 1099 >>,
      << 1040, 1088, 1077, 1085, 1076, 1099 >>,
      << 1084, 1077, 1078, 1076, 1091 >>,
      << 95 >>, << 37 >>, << 40 >> }

\* The query arguments tried with a search term
SearchQueryArgs ==
    { [category_id |-> {}, doc_type |-> {}, search |-> {term}]
      : term \in SearchTerms }
    \cup { [category_id |-> {1}, doc_type |-> {}, search |-> {<< 1084, 1077, 1078, 1076, 1091 >>}],
           [category_id |-> {}, doc_type |-> {"Dogovor"}, search |-> {<< 40 >>}] }

\* Python truthiness of the search argument: None and '' are falsy
SearchTruthy(search) == search # {} /\ search # { << >> }

\* sqlite3UpperToLower: LIKE folds the case of ASCII letters only
LikeFold(c) == IF c >= 65 /\ c <= 90 THEN c + 32 ELSE c

\* SQLite's LIKE (patternCompare): pattern from position i against text from
\* position j; '%' (37) matches any run of characters, '_' (95) any one
\* character, any other character itself up to ASCII case
RECURSIVE LikeFrom(_, _, _, _)
LikeFrom(pattern, i, text, j) ==
    IF i > Len(pattern) THEN j > Len(text)
    ELSE IF pattern[i] = 37
         THEN \E k \in j..(Len(text) + 1) : LikeFrom(pattern, i + 1, text, k)
         ELSE /\ j <= Len(text)
              /\ \/ pattern[i] = 95
                 \/ LikeFold(pattern[i]) = LikeFold(text[j])
              /\ LikeFrom(pattern, i + 1, text, j + 1)

\* text LIKE pattern
Like(text, pattern) == LikeFrom(pattern, 1, text, 1)

\* search_pattern = f'%{search}%'
SearchPattern(search) == << 37 >> \o ArgValue(search) \o << 37 >>

\* AND (t.name LIKE ? OR t.description LIKE ?), appended only for a truthy
\* search argument
SearchMatches(t, search) ==
    SearchTruthy(search) =>
        \/ Like(CodePoints(t.name), SearchPattern(search))
        \/ Like(CodePoints(t.description), SearchPattern(search))

\* The clauses joined by OR
TemplateMatchesEither(t, category_id, doc_type) ==
    \/ IntArgTruthy(category_id) /\ t.category_id = ArgValue(category_id)
    \/ StrArgTruthy(doc_type) /\ t.doc_type = ArgValue(doc_type)
    \/ ~IntArgTruthy(category_id) /\ ~StrArgTruthy(doc_type)

\* WHERE 1=1 [AND t.category_id = ?] [AND t.doc_type = ?]: a clause is
\* appended only for a truthy argument
TemplateMatches(t, category_id, doc_type) ==
    /\ IntArgTruthy(category_id) => t.category_id = ArgValue(category_id)
    /\ StrArgTruthy(doc_type) => t.doc_type = ArgValue(doc_type)

\* ORDER BY t.popularity DESC, t.name
ByPopularityThenName(a, b) ==
    \/ a.popularity > b.popularity
    \/ a.popularity = b.popularity /\ NameLess(a.name, b.name)

\* SELECT t.id, t.name, t.description, t.doc_type, t.word_count,
\* t.popularity, c.name as category_name ... ORDER BY ...; the handler's loop
\* renames doc_type to type and category_name to category
TemplatesList(category_id, doc_type, search) ==
    SortSeq(FetchAll({ [id |-> t.id, name |-> t.name,
                        description |-> t.description, type |-> t.doc_type,
                        category |-> CategoryName(t.category_id),
                        word_count |-> t.word_count, popularity |-> t.popularity]
                       : t \in { x \in templates :
                                   /\ TemplateMatches(x, category_id, doc_type)
                                   /\ SearchMatches(x, search) } }),
            ByPopularityThenName)

get_all_templates(category_id, doc_type, search) ==
    /\ request' = [op |-> "templates", category_id |-> category_id,
                   doc_type |-> doc_type, search |-> search]
    /\ \E templates_list \in { TemplatesList(category_id, doc_type, search) } :
          response' = [status |-> 200, templates |-> templates_list,
                       count |-> Len(templates_list)]
    /\ conn' = "closed"
    /\ UNCHANGED inflight
    /\ UNCHANGED << tables, sqlite_sequence, clock, served, detail_calls >>

(***************************************************************************)
(* GET /api/templates/<id> (get_template_detail)                           *)
(***************************************************************************)

\* The template ids requests are made with
TemplateIdArgs == { 1, 2, 11 }

\* The SELECT without its WHERE clause
AnyTemplate(template_id) == templates

\* SELECT ... WHERE t.id = ? ... fetchone(): the rows found (at most one)
TemplateById(template_id) == { t \in templates : t.id = template_id }

\* The UPDATE without its WHERE clause
BumpEveryPopularity(rows, template_id) ==
    { [t EXCEPT !.popularity = @ + 1] : t \in rows }

\* UPDATE templates SET popularity = popularity + 1 WHERE id = ?
BumpPopularity(rows, template_id) ==
    { IF t.id = template_id THEN [t EXCEPT !.popularity = @ + 1] ELSE t
      : t \in rows }

\* template_data['popularity'] = template['popularity']: the row fetched by
\* the SELECT that runs before the UPDATE
DetailPopularity(template) == template.popularity

\* template_data: built from the fetched row (the SELECT joins the category
\* name)
TemplateData(template) ==
    [id |-> template.id, name |-> template.name,
     type |-> template.doc_type,
     category |-> CategoryName(template.category_id),
     category_id |-> template.category_id,
     word_count |-> template.word_count,
     popularity |-> DetailPopularity(template)]

get_template_detail(template_id) ==
    /\ served < MaxRequests
    /\ request' = [op |-> "detail", template_id |-> template_id]
    /\ IF TemplateById(template_id) = {}
       THEN /\ response' = [status |-> 404]
            /\ conn' = "open"
            /\ UNCHANGED inflight
            /\ UNCHANGED << tables, sqlite_sequence, clock, served, detail_calls >>
       ELSE LET template == CHOOSE t \in TemplateById(template_id) : TRUE
            IN  /\ templates' = BumpPopularity(templates, template_id)
                /\ response' = [status |-> 200, template |-> TemplateData(template)]
                /\ served' = served + 1
                /\ detail_calls' = [detail_calls EXCEPT ![template_id] = @ + 1]
                /\ conn' = "closed"
                /\ UNCHANGED inflight
                /\ UNCHANGED << categories, template_fields, filled_documents,
                                sqlite_sequence, clock >>

(***************************************************************************)
(* GET /api/templates/<id>/fields (get_template_fields)                    *)
(***************************************************************************)

\* ORDER BY order_index, id
ByOrderIndexThenId(a, b) ==
    \/ a.order_index < b.order_index
    \/ a.order_index = b.order_index /\ a.id < b.id

\* SELECT field_key, ..., order_index FROM template_fields WHERE
\* template_id = ? ORDER BY order_index, id; the loop builds field_data
FieldsList(template_id) ==
    LET rows == SortSeq(FetchAll({ f \in template_fields : f.template_id = template_id }),
                        ByOrderIndexThenId)
    IN  [ j \in 1..Len(rows) |->
            [key |-> rows[j].field_key, type |-> rows[j].field_type,
             required |-> rows[j].is_required] ]

\* The handler with the popularity UPDATE of the detail handler in it
get_template_fields_bumping(template_id) ==
    /\ request' = [op |-> "fields", template_id |-> template_id]
    /\ response' = [status |-> 200, template_id |-> template_id]
    /\ templates' = BumpPopularity(templates, template_id)
    /\ conn' = "closed"
    /\ UNCHANGED << categories, template_fields, filled_documents, sqlite_sequence,
                    clock, served, detail_calls, inflight >>

get_template_fields(template_id) ==
    /\ request' = [op |-> "fields", template_id |-> template_id]
    /\ IF TemplateById(template_id) = {}
       THEN /\ response' = [status |-> 404]
            /\ conn' = "open"
       ELSE /\ \E fields \in { FieldsList(template_id) } :
                  response' = [status |-> 200, template_id |-> template_id,
                               template_name |->
                                  (CHOOSE t \in TemplateById(template_id) : TRUE).name,
                               fields |-> fields]
            /\ conn' = "closed"
    /\ UNCHANGED << tables, sqlite_sequence, clock, served, detail_calls, inflight >>

(***************************************************************************)
(* GET /api/templates/<id> by several clients at once: each handler's      *)
(* statements are steps of their own, interleaved with the other's         *)
(***************************************************************************)

\* The UPDATE as a write of the fetched popularity plus one
WriteFetchedPlusOne(rows, template) ==
    { IF t.id = template.id THEN [t EXCEPT !.popularity = template.popularity + 1]
      ELSE t : t \in rows }

\* conn.execute('UPDATE templates SET popularity = popularity + 1 WHERE
\* id = ?', (template_id,)); conn.commit(), in the handler that fetched
\* template: one statement, which SQLite runs under its write lock
UpdateStatement(rows, template) == BumpPopularity(rows, template.id)

\* The UPDATE's outcomes: done, or "database is locked" (OperationalError)
\* when another connection is in use and the busy timeout runs out
UpdateOutcomes(c) ==
    IF \E o \in Clients \ {c} : inflight[o].pc # "idle"
    THEN { "done", "locked" } ELSE { "done" }

\* template = conn.execute(SELECT ... WHERE t.id = ?).fetchone(); 404 if
\* there is no row
detail_select(c, template_id) ==
    /\ served < MaxRequests
    /\ inflight[c].pc = "idle"
    /\ IF TemplateById(template_id) = {}
       THEN /\ request' = [op |-> "detail", template_id |-> template_id]
            /\ response' = [status |-> 404]
            /\ conn' = "open"
            /\ UNCHANGED << tables, sqlite_sequence, clock, served, detail_calls,
                            inflight >>
       ELSE /\ inflight' = [inflight EXCEPT ![c] =
                               [pc |-> "update", template_id |-> template_id,
                                template |-> CHOOSE t \in TemplateById(template_id) : TRUE]]
            /\ served' = served + 1
            /\ UNCHANGED << tables, sqlite_sequence, clock, detail_calls,
                            request, response, conn >>

\* The UPDATE and its commit; an OperationalError reaches the except: 500
detail_update(c) ==
    /\ inflight[c].pc = "update"
    /\ \E outcome \in UpdateOutcomes(c) :
          IF outcome = "locked"
          THEN /\ request' = [op |-> "detail", template_id |-> inflight[c].template_id]
               /\ response' = [status |-> 500]
               /\ conn' = "open"
               /\ inflight' = [inflight EXCEPT ![c] = Idle]
               /\ UNCHANGED << tables, sqlite_sequence, clock, served, detail_calls >>
          ELSE /\ templates' = UpdateStatement(templates, inflight[c].template)
               /\ inflight' = [inflight EXCEPT ![c].pc = "return"]
               /\ UNCHANGED << categories, template_fields, filled_documents,
                               sqlite_sequence, clock, served, detail_calls,
                               request, response, conn >>

\* template_data = {...}; conn.close(); return jsonify(...)
detail_return(c) ==
    /\ inflight[c].pc = "return"
    /\ request' = [op |-> "detail", template_id |-> inflight[c].template_id]
    /\ response' = [status |-> 200, template |-> TemplateData(inflight[c].template)]
    /\ conn' = "closed"
    /\ detail_calls' = [detail_calls EXCEPT ![inflight[c].template_id] = @ + 1]
    /\ inflight' = [inflight EXCEPT ![c] = Idle]
    /\ UNCHANGED << tables, sqlite_sequence, clock, served >>

\* A database after one seed
InitSeeded ==
    \E st \in { InsertTemplates([templates |-> {}, template_fields |-> {},
                                 seq_t |-> 0, seq_f |-> 0, added_count |-> 0],
                                1, CategoryIds(0), NoFault) } :
        /\ categories = SeedCategories(0)
        /\ templates = st.templates
        /\ template_fields = st.template_fields
        /\ filled_documents = {}
        /\ sqlite_sequence = [categories |-> Len(CatalogCategories),
                              templates |-> st.seq_t,
                              template_fields |-> st.seq_f,
                              filled_documents |-> 0]
        /\ clock = 0
        /\ served = 0
        /\ detail_calls = [ id \in { t.id : t \in st.templates } |-> 0 ]
        /\ request = [op |-> "seed", fault |-> NoFault]
        /\ response = [status |-> 200, templates_added |-> st.added_count,
                       templates_list |-> SeededNames(st.added_count)]
        /\ conn = "closed"
        /\ inflight = [c \in Clients |-> Idle]

(***************************************************************************)
(* POST /api/documents/generate (generate_document)                        *)
(***************************************************************************)

\* A Python dict is a sequence of [k, v] entries with distinct keys, in
\* insertion order.  A submitted value is named by its Python literal.
PyValues == { "''", "'x'", "0", "7", "False", "True", "None" }

\* not v: the empty string, 0, False and None are falsy
Truthy(v) == v \notin { "''", "0", "False", "None" }

\* k in d
HasKey(d, k) == \E j \in 1..Len(d) : d[j].k = k

\* d[k]
GetItem(d, k) == d[CHOOSE j \in 1..Len(d) : d[j].k = k].v

\* json.dumps of a value
JsonValue(v) ==
    CASE v = "''" -> "\"\""
      [] v = "'x'" -> "\"x\""
      [] v = "False" -> "false"
      [] v = "True" -> "true"
      [] v = "None" -> "null"
      [] OTHER -> v

\* json.dumps(fields_data): the tokens of the JSON object text
RECURSIVE JsonMembers(_, _)
JsonMembers(d, j) ==
    IF j > Len(d) THEN << >>
    ELSE (IF j > 1 THEN << "," >> ELSE << >>)
         \o << d[j].k, ":", JsonValue(d[j].v) >> \o JsonMembers(d, j + 1)

JsonDumps(d) == << "{" >> \o JsonMembers(d, 1) \o << "}" >>

\* The request bodies tried.  Filled(i): every required key of catalog
\* template i with a non-empty string.
Filled(i) ==
    LET required == SelectSeq(TemplatesData[i].fields, LAMBDA f : f.required)
    IN  [ j \in 1..Len(required) |-> [k |-> required[j].key, v |-> "'x'"] ]

Without(d, k) == SelectSeq(d, LAMBDA e : e.k # k)

With(d, k, v) == [ j \in 1..Len(d) |-> IF d[j].k = k THEN [k |-> k, v |-> v] ELSE d[j] ]

\* A request body: whether its text is JSON sent as JSON, the keys of the
\* JSON object, the value of template_id, and the value of fields with its
\* JSON type (a list is the sequence of [k |-> element] entries)
EmptyObject ==
    [json |-> TRUE, keys |-> {}, template_id |-> 0,
     fields_type |-> "dict", fields |-> << >>]

\* A well-formed JSON object body
Body(template_id, fields) ==
    [json |-> TRUE, keys |-> {"template_id", "fields"}, template_id |-> template_id,
     fields_type |-> "dict", fields |-> fields]

Bodies ==
    { EmptyObject,
      [EmptyObject EXCEPT !.keys = {"fields"}, !.fields = Filled(2)],
      [EmptyObject EXCEPT !.keys = {"template_id"}, !.template_id = 1],
      Body(1, << >>),
      Body(2, Filled(2)) }
    \cup { Body(id, d) : id \in {1, 11},
                         d \in { Filled(1) \o << [k |-> "deposit", v |-> "0"] >>,
                                 Without(Without(Filled(1), "address"), "end_date") } }
    \cup { Body(1, With(Filled(1), "landlord_name", v))
           : v \in { "''", "0", "False", "None" } }

\* The malformed request bodies tried: no JSON, an empty object, an object
\* without template_id or without fields, and fields that is a number, null,
\* an empty list or a list that holds the first required key of template 1
MalformedBodies ==
    { [EmptyObject EXCEPT !.json = FALSE],
      EmptyObject,
      [EmptyObject EXCEPT !.keys = {"fields"}, !.fields = Filled(1)],
      [EmptyObject EXCEPT !.keys = {"template_id"}, !.template_id = 1] }
    \cup { [Body(id, << >>) EXCEPT !.fields_type = type]
           : id \in {1, 11}, type \in { "int", "null", "list" } }
    \cup { [Body(1, << [k |-> "landlord_name", v |-> "'x'"] >>)
              EXCEPT !.fields_type = "list"] }

\* request.get_json(): the parsed body ("data"); for a body that is not
\* JSON sent as JSON, None (Flask before 2.1, other content type) or a
\* raised BadRequest / UnsupportedMediaType, depending on the Flask
\* installed and on the Content-Type header
GetJson(data) == IF data.json THEN { "data" } ELSE { "None", "raises" }

\* if not data or 'template_id' not in data or 'fields' not in data
BodyRejected(data) ==
    \/ ~data.json
    \/ data.keys = {}
    \/ "template_id" \notin data.keys
    \/ "fields" \notin data.keys

\* The scan in descending rowid order
FieldByIdDesc(a, b) == a.id > b.id

\* The order of a table scan: by rowid, which is the id
FieldById(a, b) == a.id < b.id

\* SELECT field_key, field_type, is_required FROM template_fields WHERE
\* template_id = ? (a table scan, in rowid order), then
\* [field['field_key'] for field in template_fields if field['is_required']]
RequiredFields(template_id) ==
    LET rows == SortSeq(FetchAll({ f \in template_fields :
                                     f.template_id = template_id /\ f.is_required }),
                        FieldById)
    IN  [ j \in 1..Len(rows) |-> rows[j].field_key ]

\* The test without its second half: only the key's presence is looked at
KeyAbsent(req_field, fields_data) == ~HasKey(fields_data, req_field)

\* if req_field not in fields_data or not fields_data[req_field]
Unfilled(req_field, fields_data) ==
    \/ ~HasKey(fields_data, req_field)
    \/ ~Truthy(GetItem(fields_data, req_field))

\* for req_field in required_fields: ... return 400: the positions of the
\* required fields that fail the test; the loop stops at the smallest
UnfilledPositions(required_fields, fields_data) ==
    { j \in 1..Len(required_fields) : Unfilled(required_fields[j], fields_data) }

Min(S) == CHOOSE x \in S : \A y \in S : x <= y

\* The loop's test raises TypeError at the first required field: `in` on a
\* number or None, or fields_data[req_field] on a list that holds the key
LoopRaises(required_fields, data) ==
    /\ required_fields # << >>
    /\ \/ data.fields_type \in { "int", "null" }
       \/ data.fields_type = "list" /\ HasKey(data.fields, required_fields[1])

\* json.dumps(fields_data), whatever its type
RECURSIVE JsonElements(_, _)
JsonElements(d, j) ==
    IF j > Len(d) THEN << >>
    ELSE (IF j > 1 THEN << "," >> ELSE << >>) \o << d[j].k >> \o JsonElements(d, j + 1)

JsonDumpsAny(data) ==
    CASE data.fields_type = "dict" -> JsonDumps(data.fields)
      [] data.fields_type = "int" -> << "5" >>
      [] data.fields_type = "null" -> << "null" >>
      [] data.fields_type = "list" -> << "[" >> \o JsonElements(data.fields, 1) \o << "]" >>

\* The INSERT without its status value: the column default applies
NewDraftDocument(document_id, template_id, fields_data, now) ==
    [id |-> document_id, template_id |-> template_id,
     document_data |-> JsonDumps(fields_data),
     status |-> "draft", created_at |-> now]

\* INSERT INTO filled_documents (template_id, document_data, status)
\* VALUES (?, ?, 'generated'); created_at DEFAULT CURRENT_TIMESTAMP
NewDocument(document_id, template_id, fields_data, now) ==
    [id |-> document_id, template_id |-> template_id,
     document_data |-> JsonDumps(fields_data),
     status |-> "generated", created_at |-> now]

\* The INSERT as INSERT OR REPLACE keyed on the template: the new row takes
\* the place of the template's earlier documents
ReplaceDocument(rows, row) ==
    { r \in rows : r.template_id # row.template_id } \cup { row }

\* INSERT INTO filled_documents: the table with the new row added
InsertDocument(rows, row) == rows \cup { row }

\* elapsed: the seconds gone by since the last INSERT into filled_documents
generate_document(data, elapsed) ==
    /\ served < MaxRequests
    /\ request' = [op |-> "generate", data |-> data]
    /\ \E got \in GetJson(data) :
       IF got = "raises"
       THEN /\ response' = [status |-> 500]
            /\ conn' = "none"
            /\ UNCHANGED inflight
            /\ UNCHANGED << tables, sqlite_sequence, clock, served, detail_calls >>
       ELSE IF BodyRejected(data)
       THEN /\ response' = [status |-> 400, error |-> "template_id and fields"]
            /\ conn' = "none"
            /\ UNCHANGED inflight
            /\ UNCHANGED << tables, sqlite_sequence, clock, served, detail_calls >>
       ELSE IF TemplateById(data.template_id) = {}
       THEN /\ response' = [status |-> 404]
            /\ conn' = "open"
            /\ UNCHANGED inflight
            /\ UNCHANGED << tables, sqlite_sequence, clock, served, detail_calls >>
       ELSE \E required_fields \in { RequiredFields(data.template_id) } :
            \E unfilled \in { UnfilledPositions(required_fields, data.fields) } :
              IF LoopRaises(required_fields, data)
              THEN /\ response' = [status |-> 500]
                   /\ conn' = "open"
                   /\ UNCHANGED inflight
                   /\ UNCHANGED << tables, sqlite_sequence, clock, served, detail_calls >>
              ELSE IF unfilled # {}
              THEN /\ response' = [status |-> 400,
                                   error |-> required_fields[Min(unfilled)]]
                   /\ conn' = "open"
                   /\ UNCHANGED inflight
                   /\ UNCHANGED << tables, sqlite_sequence, clock, served, detail_calls >>
              ELSE LET document_id == sqlite_sequence.filled_documents + 1
                       template == CHOOSE t \in TemplateById(data.template_id) : TRUE
                   IN  /\ filled_documents' =
                              InsertDocument(filled_documents,
                                  [NewDocument(document_id, data.template_id,
                                               data.fields, clock + elapsed)
                                     EXCEPT !.document_data = JsonDumpsAny(data)])
                       /\ sqlite_sequence' =
                              [sqlite_sequence EXCEPT !.filled_documents = document_id]
                       /\ clock' = clock + elapsed
                       /\ response' = [status |-> 200, document_id |-> document_id,
                                       template_name |-> template.name]
                       /\ served' = served + 1
                       /\ conn' = "closed"
                       /\ UNCHANGED inflight
                       /\ UNCHANGED << categories, templates, template_fields,
                                       detail_calls >>

(***************************************************************************)
(* GET /api/documents (get_documents)                                      *)
(***************************************************************************)

\* LIMIT 100
DocumentsLimit == 100

\* The documents generated before the first request of a run that starts
\* from a filled database
Preloaded == 99

\* The query with LEFT JOIN in place of JOIN: every document, the template
\* name NULL where no template matches
LeftJoinedDocuments ==
    { [id |-> fd.id, template_id |-> fd.template_id,
       template_name |-> IF TemplateById(fd.template_id) = {} THEN NULL
                         ELSE (CHOOSE t \in TemplateById(fd.template_id) : TRUE).name,
       created_at |-> fd.created_at, status |-> fd.status]
      : fd \in filled_documents }

\* SELECT fd.id, fd.template_id, fd.created_at, fd.status, t.name as
\* template_name FROM filled_documents fd JOIN templates t
\* ON fd.template_id = t.id
JoinedDocuments ==
    { [id |-> p[1].id, template_id |-> p[1].template_id,
       template_name |-> p[2].name,
       created_at |-> p[1].created_at, status |-> p[1].status]
      : p \in { q \in filled_documents \X templates : q[1].template_id = q[2].id } }

\* ORDER BY fd.created_at DESC; SQL leaves the order of rows with equal
\* created_at open: tie is the order the query plan happens to give them
ByCreatedAtDesc(a, b, tie) ==
    \/ a.created_at > b.created_at
    \/ /\ a.created_at = b.created_at
       /\ IF tie = "id" THEN a.id < b.id ELSE a.id > b.id

\* fetchall() of rows that carry distinct ids up to last: the rows as a
\* sequence, in id order (ORDER BY then sorts it)
FetchAllById(rows, last) ==
    LET ids == SelectSeq([ i \in 1..last |-> i ], LAMBDA i : \E r \in rows : r.id = i)
    IN  [ k \in 1..Len(ids) |-> CHOOSE r \in rows : r.id = ids[k] ]

\* LIMIT n
Limit(rows, n) == SubSeq(rows, 1, IF Len(rows) < n THEN Len(rows) ELSE n)

\* ... ORDER BY fd.created_at DESC LIMIT 100, fetchall()
DocumentsList(tie) ==
    Limit(SortSeq(FetchAllById(JoinedDocuments, sqlite_sequence.filled_documents),
                  LAMBDA a, b : ByCreatedAtDesc(a, b, tie)),
          DocumentsLimit)

get_documents(tie) ==
    /\ request' = [op |-> "documents"]
    /\ \E documents_list \in { DocumentsList(tie) } :
          response' = [status |-> 200, documents |-> documents_list,
                       count |-> Len(documents_list)]
    /\ conn' = "closed"
    /\ UNCHANGED inflight
    /\ UNCHANGED << tables, sqlite_sequence, clock, served, detail_calls >>

(***************************************************************************)
(* GET /api/statistics (get_statistics)                                    *)
(***************************************************************************)

\* ORDER BY popularity DESC; the order of templates of equal popularity is
\* left open: tie is the order the query plan happens to give them
ByPopularityDesc(a, b, tie) ==
    \/ a.popularity > b.popularity
    \/ /\ a.popularity = b.popularity
       /\ IF tie = "id" THEN a.id < b.id ELSE a.id > b.id

\* SELECT id, name, popularity FROM templates ORDER BY popularity DESC
\* LIMIT 5
PopularTemplates(tie) ==
    Limit(SortSeq(FetchAll({ [id |-> t.id, name |-> t.name, popularity |-> t.popularity]
                             : t \in templates }),
                  LAMBDA a, b : ByPopularityDesc(a, b, tie)),
          5)

\* SELECT fd.id, t.name, fd.created_at FROM filled_documents fd JOIN
\* templates t ON fd.template_id = t.id ORDER BY fd.created_at DESC LIMIT 5
RecentDocuments(tie) ==
    Limit(SortSeq(FetchAllById({ [id |-> d.id, name |-> d.template_name,
                                  created_at |-> d.created_at] : d \in JoinedDocuments },
                               sqlite_sequence.filled_documents),
                  LAMBDA a, b : ByCreatedAtDesc(a, b, tie)),
          5)

get_statistics(tie) ==
    /\ request' = [op |-> "statistics"]
    /\ \E popular_templates \in { PopularTemplates(tie) } :
       \E recent_documents \in { RecentDocuments(tie) } :
          response' = [status |-> 200,
                       total_templates |-> Cardinality(templates),
                       total_documents |-> Cardinality(filled_documents),
                       popular_templates |-> popular_templates,
                       recent_documents |-> recent_documents]
    /\ conn' = "closed"
    /\ UNCHANGED << tables, sqlite_sequence, clock, served, detail_calls, inflight >>

\* A database after one seed and Preloaded generated documents, for catalog
\* templates 1 and 2 in turn, forty to the second
InitDocuments ==
    \E st \in { InsertTemplates([templates |-> {}, template_fields |-> {},
                                 seq_t |-> 0, seq_f |-> 0, added_count |-> 0],
                                1, CategoryIds(0), NoFault) } :
        /\ categories = SeedCategories(0)
        /\ templates = st.templates
        /\ template_fields = st.template_fields
        /\ filled_documents =
              { NewDocument(i, 1 + (i % 2), Filled(1 + (i % 2)), i \div 40)
                : i \in 1..Preloaded }
        /\ sqlite_sequence = [categories |-> Len(CatalogCategories),
                              templates |-> st.seq_t,
                              template_fields |-> st.seq_f,
                              filled_documents |-> Preloaded]
        /\ clock = Preloaded \div 40
        /\ served = 0
        /\ detail_calls = [ id \in { t.id : t \in st.templates } |-> 0 ]
        /\ request = [op |-> "none"]
        /\ response = [status |-> 0]
        /\ conn = "closed"
        /\ inflight = [c \in Clients |-> Idle]

(***************************************************************************)
(* Properties                                                              *)
(***************************************************************************)

TemplateIds(rows) == { t.id : t \in rows }

PopularityOf(rows, id) == (CHOOSE t \in rows : t.id = id).popularity

\* The last request was a template detail request answered 200
DetailServed == request.op = "detail" /\ response.status = 200

\* C1: a template detail request answered 200 raises the popularity of the
\* requested template by exactly 1 and leaves every other template's
\* popularity (and the set of templates) as it was; and a template that
\* has answered N detail requests since its row was inserted by a seed (with
\* the column default 0) has popularity 0 + N.
C1_DetailAddsOne ==
    /\ [][ DetailServed' =>
             /\ request'.template_id \in TemplateIds(templates)
             /\ TemplateIds(templates') = TemplateIds(templates)
             /\ \A t \in templates :
                   PopularityOf(templates', t.id) =
                      t.popularity + (IF t.id = request'.template_id THEN 1 ELSE 0) ]_vars
    /\ [](\A t \in templates : t.popularity = 0 + detail_calls[t.id])

\* C1 witness: the second of two detail requests on one template, a state
\* in which another template is still at its original popularity
C1_Witness ==
    /\ DetailServed
    /\ detail_calls[request.template_id] = 2
    /\ PopularityOf(templates, request.template_id) = 2
    /\ \E t \in templates : t.popularity = 0

\* C2: the popularity in the body of a detail response answered 200 is the
\* stored popularity after the call's increment.
C2_ReturnsPostIncrement ==
    DetailServed =>
        response.template.popularity = PopularityOf(templates, request.template_id)

UnfilledRequired(template_id, fields_data) ==
    { f \in template_fields :
        /\ f.template_id = template_id
        /\ f.is_required
        /\ \/ ~HasKey(fields_data, f.field_key)
           \/ GetItem(fields_data, f.field_key) \in { "''", "0", "False", "None" } }

\* A well-formed generation request for a template that exists
GenerateFor(req, rows) ==
    /\ req.op = "generate"
    /\ req.data.keys = {"template_id", "fields"}
    /\ req.data.template_id \in TemplateIds(rows)

\* C4: document generation for an existing template with at least one
\* required field absent or falsy is answered 400 and leaves
\* filled_documents as it was.
C4_MissingRequiredRejected ==
    [][ (/\ GenerateFor(request', templates)
         /\ UnfilledRequired(request'.data.template_id, request'.data.fields) # {}) =>
            /\ response'.status = 400
            /\ filled_documents' = filled_documents ]_vars

\* C4 witness: a 400 that names a required field whose key was submitted
\* with a falsy value
C4_Witness ==
    /\ GenerateFor(request, templates)
    /\ response.status = 400
    /\ HasKey(request.data.fields, response.error)
    /\ ~Truthy(GetItem(request.data.fields, response.error))

\* The mapping a JSON object text (its tokens) stands for
JsonLoads(tokens) ==
    [ j \in 1..((Len(tokens) - 1) \div 4) |->
        [k |-> tokens[4 * j - 2],
         v |-> CHOOSE v \in PyValues : JsonValue(v) = tokens[4 * j]] ]

\* The rows a generation step adds, when it adds exactly one row that has
\* the request's template id, status "generated" and the submitted mapping
\* as its document data, and changes no other row
OneDocumentAdded ==
    \E d \in filled_documents' \ filled_documents :
        /\ filled_documents' = filled_documents \cup {d}
        /\ d.template_id = request'.data.template_id
        /\ d.status = "generated"
        /\ JsonLoads(d.document_data) = request'.data.fields

\* C5 as stated: document generation for an existing template with every
\* required field key present adds exactly one filled_documents row
\* (template id as submitted, status "generated", document data the
\* serialized submitted mapping) and changes no other row.
C5_KeysPresentCreates ==
    [][ (/\ GenerateFor(request', templates)
         /\ \A f \in template_fields :
               (f.template_id = request'.data.template_id /\ f.is_required)
                  => HasKey(request'.data.fields, f.field_key)) =>
            OneDocumentAdded ]_vars

\* C5 as amended: the same, when every required field key is present with a
\* non-empty, non-falsy value.
C5_FilledCreates ==
    [][ (/\ GenerateFor(request', templates)
         /\ UnfilledRequired(request'.data.template_id, request'.data.fields) = {}) =>
            /\ response'.status = 200
            /\ OneDocumentAdded ]_vars

\* C5 witness: a second document has been created, from a submission that
\* also carries an optional key with a falsy value
C5_Witness ==
    /\ GenerateFor(request, templates)
    /\ response.status = 200
    /\ Cardinality(filled_documents) = 2
    /\ HasKey(request.data.fields, "deposit")
    /\ \E d \in filled_documents :
          d.id = response.document_id /\ JsonLoads(d.document_data) = request.data.fields

\* The last request was a seed answered 200
SeedServed == request.op = "seed" /\ response.status = 200

Range(seq) == { seq[k] : k \in 1..Len(seq) }

C7_DocumentsReferenceTemplates ==
    \A d \in filled_documents : d.template_id \in TemplateIds(templates)

\* C8: every template_fields row references a template row that exists,
\* also after a seed in which the INSERT of a template or of a field failed.
C8_FieldsReferenceTemplates ==
    \A f \in template_fields : f.template_id \in TemplateIds(templates)

\* C8 witness: a second seed, answered 200, in which the INSERT of a field
\* failed and the fields before it were kept
C8_Witness ==
    /\ SeedServed
    /\ request.fault.stage = "field"
    /\ sqlite_sequence.categories = 16
    /\ \E f \in template_fields :
          /\ f.field_key = TemplatesData[request.fault.t].fields[1].key
          /\ Cardinality({ g \in template_fields : g.template_id = f.template_id }) =
                request.fault.f - 1

\* C9: the category listing holds every category row exactly once, each
\* with template_count the number of template rows of that category.
C9_CategoryCounts ==
    request.op = "categories" =>
        /\ Len(response.categories) = Cardinality(categories)
        /\ \A c \in categories :
              \E k \in 1..Len(response.categories) :
                 /\ response.categories[k].id = c.id
                 /\ response.categories[k].template_count =
                       Cardinality({ t \in templates : t.category_id = c.id })

\* C9 witness: a listing with a category of four templates and one of none
C9_Witness ==
    /\ request.op = "categories"
    /\ \E k \in 1..Len(response.categories) : response.categories[k].template_count = 4
    /\ \E k \in 1..Len(response.categories) : response.categories[k].template_count = 0

\* The ids of a template listing
ListedIds == { response.templates[k].id : k \in 1..Len(response.templates) }

\* C10 as stated: the template listing holds exactly the templates that
\* pass every supplied filter: category_id (any integer) and doc_type (any
\* string); an omitted filter does not restrict.
C10_EverySuppliedFilter ==
    request.op = "templates" =>
        LET expected == { t \in templates :
                            /\ request.category_id # {} => {t.category_id} = request.category_id
                            /\ request.doc_type # {} => {t.doc_type} = request.doc_type }
        IN  /\ ListedIds = TemplateIds(expected)
            /\ Len(response.templates) = Cardinality(expected)

\* C10 as amended: the same, where a supplied category_id of 0 and a
\* supplied empty doc_type count as omitted.
C10_EveryTruthyFilter ==
    request.op = "templates" =>
        LET expected == { t \in templates :
                            /\ request.category_id \notin { {}, {0} }
                                  => {t.category_id} = request.category_id
                            /\ request.doc_type \notin { {}, {""} }
                                  => {t.doc_type} = request.doc_type }
        IN  /\ ListedIds = TemplateIds(expected)
            /\ Len(response.templates) = Cardinality(expected)

\* C10 witness: both filters supplied, and the category alone would match
\* templates that the document type excludes
C10_Witness ==
    /\ request.op = "templates"
    /\ request.category_id = {1}
    /\ request.doc_type = {"Zayavlenie"}
    /\ response.templates = << >>
    /\ \E t \in templates : t.category_id = 1
    /\ \E t \in templates : t.doc_type = "Zayavlenie"

\* Unicode lower case of the characters the catalog and the search terms
\* use: ASCII and Cyrillic capitals
Lower(c) ==
    IF c >= 65 /\ c <= 90 THEN c + 32
    ELSE IF c >= 1040 /\ c <= 1071 THEN c + 32
    ELSE IF c = 1025 THEN 1105
    ELSE c

\* term occurs in text as a literal substring, case-insensitively
Contains(text, term) ==
    \E j \in 0..(Len(text) - Len(term)) :
        \A i \in 1..Len(term) : Lower(text[j + i]) = Lower(term[i])

SearchServed ==
    /\ request.op = "templates"
    /\ request.search \notin { {}, { << >> } }

\* C11: with a search term, the listing holds a template (that passes the
\* other filters) if and only if its name or its description contains the
\* term as a literal substring, compared case-insensitively.
C11_SearchIsLiteralSubstring ==
    SearchServed =>
        ListedIds =
            TemplateIds({ t \in templates :
                /\ TemplateMatches(t, request.category_id, request.doc_type)
                /\ \/ Contains(CodePoints(t.name), ArgValue(request.search))
                   \/ Contains(CodePoints(t.description), ArgValue(request.search)) })

\* A malformed generation request: the body is missing or not JSON, has no
\* template_id, has no fields, or its fields value is not a mapping
Malformed(req) ==
    /\ req.op = "generate"
    /\ \/ ~req.data.json
       \/ "template_id" \notin req.data.keys
       \/ "fields" \notin req.data.keys
       \/ req.data.fields_type # "dict"

\* C12: every malformed generation request is answered 400 (never 500 or
\* 404) and creates no filled_documents row.
C12_Malformed400 ==
    [][ Malformed(request') =>
            /\ response'.status = 400
            /\ filled_documents' = filled_documents ]_vars

\* C20: in a seed answered 200, templates_list has templates_added entries
\* and names exactly the templates the seed inserted: every entry is the
\* name of a template row that exists after the seed, and every such row is
\* named.
C20_ListNamesInserted ==
    SeedServed =>
        /\ Len(response.templates_list) = response.templates_added
        /\ Range(response.templates_list) = { t.name : t \in templates }

ReadOnlyOps == { "categories", "templates", "fields", "documents", "statistics" }

\* C19: a category listing, template listing, template fields, document
\* listing or statistics request, answered 200 or with an error, leaves
\* every row of the four tables as it was; a step that changes a row is a
\* template detail, a document generation or a seed.
C19_ReadOnlyOperations ==
    [][ /\ request'.op \in ReadOnlyOps => tables' = tables
        /\ tables' # tables => request'.op \in { "detail", "generate", "seed" } ]_vars

\* C19 witness: template fields read for a template that exists, over a
\* database with a bumped popularity and a filled document
C19_Witness ==
    /\ request.op = "fields"
    /\ response.status = 200
    /\ Len(response.fields) = 12
    /\ filled_documents # {}
    /\ \E t \in templates : t.popularity > 0

\* The clients whose UPDATE for template id is committed and whose handler
\* has not returned yet
Updated(id) == { c \in Clients : inflight[c].pc = "return" /\ inflight[c].template_id = id }

\* C18 as stated: the bump is a read-modify-write, so an increment can be
\* lost: the handler's UPDATE stores the popularity its SELECT fetched, plus
\* one.
C18_BumpWritesFetchedPlusOne ==
    [][ \A c \in Clients :
          (inflight[c].pc = "update" /\ inflight'[c].pc = "return") =>
              PopularityOf(templates', inflight[c].template_id)
                 = inflight[c].template.popularity + 1 ]_vars

\* C18 as amended: no increment is lost in any interleaving: the stored
\* popularity of a template is its original value (0 after the seed) plus
\* the number of detail requests for it that completed with 200 or have
\* committed their UPDATE.
C18_NoIncrementLost ==
    \A t \in templates :
        t.popularity = detail_calls[t.id] + Cardinality(Updated(t.id))

\* C18 witness: two detail requests for one template interleaved: both
\* fetched popularity 0 before either UPDATE, both completed, and the stored
\* popularity is 2
C18_Witness ==
    /\ \A c \in Clients : inflight[c].pc = "idle"
    /\ request.op = "detail"
    /\ response.status = 200
    /\ response.template.popularity = 0
    /\ detail_calls[response.template.id] = 2
    /\ PopularityOf(templates, response.template.id) = 2

\* C17: every handler that opens a connection closes it before it returns,
\* on every return path (200, 404, 400, 500): no handler returns with its
\* connection open.
C17_ConnectionClosed == conn # "open"

\* The template rows of catalog template i, and their field rows
RowsOfCatalog(i) == { t \in templates : t.name = TemplatesData[i].name }

FieldRowsOfCatalog(i) ==
    { f \in template_fields : f.template_id \in TemplateIds(RowsOfCatalog(i)) }

\* Catalog template i has its row and a row for every one of its fields
FullyInserted(i) ==
    /\ Cardinality(RowsOfCatalog(i)) = 1
    /\ Cardinality(FieldRowsOfCatalog(i)) = Len(TemplatesData[i].fields)
    /\ { f.field_key : f \in FieldRowsOfCatalog(i) }
          = { TemplatesData[i].fields[j].key : j \in 1..Len(TemplatesData[i].fields) }

\* The catalog template whose INSERT, or whose field's INSERT, failed in the
\* last seed
FailedInSeed ==
    IF request.fault.stage \in { "template", "field" } THEN { request.fault.t } ELSE {}

\* C16 as stated: a seed answered 200 returns as templates_added the number
\* of templates inserted; a template whose INSERT or whose field's INSERT
\* failed is skipped (not counted, no template row, no field rows), and
\* every other catalog template is inserted with all of its fields.
C16_FailedTemplateSkipped ==
    SeedServed =>
        /\ response.templates_added = Cardinality(templates)
        /\ response.templates_added = Len(TemplatesData) - Cardinality(FailedInSeed)
        /\ \A i \in FailedInSeed :
              RowsOfCatalog(i) = {} /\ FieldRowsOfCatalog(i) = {}
        /\ \A i \in (1..Len(TemplatesData)) \ FailedInSeed : FullyInserted(i)

\* C16 as amended: a seed answered 200 returns as templates_added the
\* number of template rows inserted.  A template whose own INSERT failed is
\* skipped: not counted, no template row, no field rows.  A template one of
\* whose field INSERTs failed is counted and keeps its template row and the
\* field rows inserted before the failing one; its later fields are
\* missing.  Every other catalog template is inserted with all its fields.
C16_FailedInsertSkipped ==
    SeedServed =>
        /\ response.templates_added = Cardinality(templates)
        /\ \A i \in FailedInSeed :
              IF request.fault.stage = "template"
              THEN /\ RowsOfCatalog(i) = {}
                   /\ FieldRowsOfCatalog(i) = {}
                   /\ response.templates_added = Len(TemplatesData) - 1
              ELSE /\ Cardinality(RowsOfCatalog(i)) = 1
                   /\ { f.field_key : f \in FieldRowsOfCatalog(i) }
                         = { TemplatesData[i].fields[j].key : j \in 1..(request.fault.f - 1) }
                   /\ response.templates_added = Len(TemplatesData)
        /\ FailedInSeed = {} => response.templates_added = Len(TemplatesData)
        /\ \A i \in (1..Len(TemplatesData)) \ FailedInSeed : FullyInserted(i)

\* C16 witness: a seed in which the INSERT of a template failed: nine
\* templates are counted and stored, the failed one has no row
C16_Witness ==
    /\ SeedServed
    /\ request.fault.stage = "template"
    /\ response.templates_added = 9
    /\ RowsOfCatalog(request.fault.t) = {}
    /\ Cardinality(template_fields) = 102

\* The row that comes first by order_index, ties broken by id
FirstInFieldOrder(rows) ==
    CHOOSE f \in rows :
        \A g \in rows : \/ f.order_index < g.order_index
                        \/ f.order_index = g.order_index /\ f.id <= g.id

C14_DocumentsOnlyGrow ==
    [][ filled_documents \subseteq filled_documents' ]_vars

\* C14 witness: a seed has run over a database that holds a document, which
\* is still there, its template gone
C14_Witness ==
    /\ request.op = "seed"
    /\ response.status = 200
    /\ filled_documents # {}
    /\ \A d \in filled_documents : d.template_id \notin TemplateIds(templates)

DocumentsServed == request.op = "documents" /\ response.status = 200

\* The filled documents whose template reference matches a template row
WithTemplate == { d \in filled_documents : d.template_id \in TemplateIds(templates) }

\* C13: the document listing returns at most 100 documents; they are the
\* most recently created filled documents whose template exists (as many as
\* there are, up to 100), in descending order of creation time; a document
\* whose template reference matches no template row is never listed.
C13_RecentDocuments ==
    DocumentsServed =>
        LET L == response.documents
            listed == { d \in filled_documents : \E k \in 1..Len(L) : L[k].id = d.id }
        IN  /\ Len(L) <= 100
            /\ Len(L) = Cardinality(listed)
            /\ Len(L) = IF Cardinality(WithTemplate) < 100
                        THEN Cardinality(WithTemplate) ELSE 100
            /\ listed \subseteq WithTemplate
            /\ \A k \in 1..Len(L) :
                  \E d \in listed : /\ d.id = L[k].id
                                    /\ d.template_id = L[k].template_id
                                    /\ d.created_at = L[k].created_at
            /\ \A k \in 1..(Len(L) - 1) : L[k].created_at >= L[k + 1].created_at
            /\ \A d \in listed, e \in WithTemplate \ listed : d.created_at >= e.created_at

\* C13 witness: more than 100 documents have a template, 100 are listed
C13_Witness ==
    /\ DocumentsServed
    /\ Cardinality(WithTemplate) > 100
    /\ response.count = 100

Next ==
    \/ \E fault \in Faults : seed_database(fault)
    \/ get_categories
    \/ \E q \in QueryArgs : get_all_templates(q.category_id, q.doc_type, q.search)
    \/ \E template_id \in TemplateIdArgs : get_template_detail(template_id)
    \/ \E data \in Bodies, elapsed \in {0, 1} : generate_document(data, elapsed)

Spec == Init /\ [][Next]_vars

\* Every route of the API, one request at a time
NextAll ==
    \/ \E fault \in { NoFault, [stage |-> "template", t |-> 2, f |-> 0] } :
          seed_database(fault)
    \/ get_categories
    \/ \E q \in { [category_id |-> {}, doc_type |-> {}, search |-> {}],
                  [category_id |-> {1}, doc_type |-> {"Zayavlenie"}, search |-> {<< 95 >>}] } :
          get_all_templates(q.category_id, q.doc_type, q.search)
    \/ \E template_id \in TemplateIdArgs : get_template_detail(template_id)
    \/ \E template_id \in TemplateIdArgs : get_template_fields(template_id)
    \/ \E data \in { Body(1, Filled(1)), Body(1, << >>), Body(11, Filled(1)) },
          elapsed \in {0, 1} :
          generate_document(data, elapsed)
    \/ \E tie \in { "id", "reverse id" } : get_documents(tie)
    \/ \E tie \in { "id", "reverse id" } : get_statistics(tie)

SpecAll == Init /\ [][NextAll]_vars

\* Template detail requests of several clients, interleaved
NextConcurrent ==
    \/ \E c \in Clients, template_id \in TemplateIdArgs : detail_select(c, template_id)
    \/ \E c \in Clients : detail_update(c)
    \/ \E c \in Clients : detail_return(c)

SpecConcurrent == InitSeeded /\ [][NextConcurrent]_vars

\* Listing the documents of a filled database while it is seeded again and
\* documents are generated
NextDocuments ==
    \/ seed_database(NoFault)
    \/ \E data \in { Body(1, Filled(1)), Body(2, Filled(2)), Body(11, Filled(1)) },
          elapsed \in {0, 1} :
          generate_document(data, elapsed)
    \/ \E tie \in { "id", "reverse id" } : get_documents(tie)

SpecDocuments == InitDocuments /\ [][NextDocuments]_vars

\* Seeding and generating from malformed and well-formed bodies
NextMalformed ==
    \/ \E fault \in Faults : seed_database(fault)
    \/ \E data \in MalformedBodies \cup { Body(2, Filled(2)) }, elapsed \in {0, 1} :
          generate_document(data, elapsed)

SpecMalformed == Init /\ [][NextMalformed]_vars

\* Seeding and searching the catalog
NextSearch ==
    \/ \E fault \in Faults : seed_database(fault)
    \/ \E q \in SearchQueryArgs : get_all_templates(q.category_id, q.doc_type, q.search)
    \/ \E template_id \in TemplateIdArgs : get_template_detail(template_id)

SpecSearch == Init /\ [][NextSearch]_vars

====
